---------------------------- MODULE Spec2Model ----------------------------
(***************************************************************************)
(* Route table, optimizer and dispatch engine of ultimate-express          *)
(* (src/src/router.js, src/src/application.js, utils.js).                  *)
(*                                                                         *)
(* A path is the sequence of its segments: "/a/b" is <<"a","b">> and the   *)
(* empty path "" is <<>>.  A segment of a template may be a parameter      *)
(* token (":id").  A handler's behaviour is an input of the model: it is   *)
(* chosen when the handler completes.                                      *)
(***************************************************************************)
EXTENDS Integers, Sequences, FiniteSets, TLC

VARIABLES
    routeKey,        \* router.js:6      process-wide key counter
    routes,          \* router.js:17     #routes of every router
    errorRoute,      \* router.js:21     whether the router has an error handler
    parent,          \* router.js:338    parent reference set by use()
    paramCallbacks,  \* router.js:18     #paramCallbacks: name -> hooks
    settings,        \* router.js:23     settings map of every router
    uwsRoutes,       \* router.js:154    handlers registered with the transport
    listening,       \* application.js:116 listen() was called
    mountpathCache,  \* router.js:19     #mountpathCache of every router
    req,             \* the request in flight (Request/Response pair)
    req2             \* a second request in flight beside it

vars == <<routeKey, routes, errorRoute, parent, paramCallbacks, settings,
          uwsRoutes, listening, mountpathCache, req, req2>>

None == "none"

(***************************************************************************)
(* Bounds of the model.                                                    *)
(***************************************************************************)
MaxSetup == 3       \* route entries, param hooks, error handlers and settings changed before listen()
MaxCallbacks == 2   \* callbacks given to one registration call

Routers == {"app", "r1", "r2"}     \* "app" is the Application, the others plain Routers
Rank == [r \in Routers |-> CASE r = "app" -> 0 [] r = "r1" -> 1 [] OTHER -> 2]

ParamToks == {":id", ":a", ":b"}
ParamName(tok) == CASE tok = ":id" -> "id" [] tok = ":a" -> "a" [] tok = ":b" -> "b" [] OTHER -> tok
ParamNames == {ParamName(t) : t \in ParamToks}
IsParam(tok) == tok \in ParamToks

\* the methods uWS supports natively (router.js:103), restricted to the verbs modelled
NativeMethods == {"GET", "POST", "PUT", "DELETE", "PATCH", "OPTIONS", "HEAD", "CONNECT", "TRACE"}

CSR == "case sensitive routing"

\* the path '/*' ('*' is rewritten to it, router.js:87-89), kept as a string
\* pattern (part_000:69-71)
Wildcard == <<"*">>

(***************************************************************************)
(* Pattern compiler (utils.js).                                            *)
(***************************************************************************)
\* needsConversionToRegex: the template holds one of * ? + ( ) : { } [ ]
NeedsConversionToRegex(path) == \E i \in 1..Len(path) : IsParam(path[i])

\* patternToRegex: ^template$ or, for a prefix, ^template(?=$|/); the empty
\* prefix template is EMPTY_REGEX, which matches every string
PatternToRegex(path, isPrefix) == [kind |-> "re", toks |-> path, prefix |-> isPrefix]

StrPattern(path) == [kind |-> "str", toks |-> path, prefix |-> FALSE]

\* one template token against one path segment: :name is [^/]+
SegMatch(tok, seg) == IF IsParam(tok) THEN TRUE ELSE tok = seg

\* RegExp.prototype.test of a pattern compiled without the prefix lookahead
RegexTestAnchored(pat, segs) ==
    /\ Len(segs) = Len(pat.toks)
    /\ \A i \in 1..Len(pat.toks) : SegMatch(pat.toks[i], segs[i])

\* RegExp.prototype.test of a compiled pattern on a path
RegexTest(pat, segs) ==
    /\ IF pat.prefix THEN Len(segs) >= Len(pat.toks) ELSE Len(segs) = Len(pat.toks)
    /\ \A i \in 1..Len(pat.toks) : SegMatch(pat.toks[i], segs[i])

\* path.replace(regex, ''): the matched prefix is removed, no match leaves the path
RegexStrip(pat, segs) ==
    IF RegexTest(pat, segs) THEN SubSeq(segs, Len(pat.toks) + 1, Len(segs)) ELSE segs

\* pattern.exec(path).groups: the named captures
ExtractParams(pat, segs) ==
    IF RegexTest(pat, segs)
    THEN [n \in {ParamName(pat.toks[i]) : i \in {j \in 1..Len(pat.toks) : IsParam(pat.toks[j])}} |->
            segs[CHOOSE i \in 1..Len(pat.toks) :
                    /\ IsParam(pat.toks[i]) /\ ParamName(pat.toks[i]) = n
                    /\ \A j \in (i+1)..Len(pat.toks) : ~(IsParam(pat.toks[j]) /\ ParamName(pat.toks[j]) = n)]]
    ELSE <<>>

RECURSIVE Flatten(_)
\* Array.prototype.join("") of the mount-path stack
Flatten(stack) == IF stack = <<>> THEN <<>> ELSE Head(stack) \o Flatten(Tail(stack))

(***************************************************************************)
(* Settings (router.js:32-42).                                             *)
(***************************************************************************)
RECURSIVE Get(_, _, _, _)
\* get(key) with one argument: the own value, else the parent's
Get(set, par, r, key) ==
    IF key \notin DOMAIN set[r] /\ par[r] # None
    THEN Get(set, par, par[r], key)
    ELSE IF key \in DOMAIN set[r] THEN set[r][key] ELSE FALSE    \* undefined is falsy

\* enabled(key) and disabled(key) of an Application (application.js:85-91)
Enabled(set, r, key) == key \in DOMAIN set[r] /\ set[r][key]
Disabled(set, r, key) == ~Enabled(set, r, key)

(***************************************************************************)
(* Registration: #createRoute, #optimizeRoute, #registerUwsRoute.          *)
(***************************************************************************)
FnCb == [t |-> "fn", r |-> None]
RouterCb(c) == [t |-> "router", r |-> c]

\* the test of #optimizeRoute (router.js:123-126) of entry r on the path of route
OptMatches(r, path) ==
    IF r.pattern.kind = "re" THEN RegexTest(r.pattern, path)
    ELSE r.pattern.toks = path \/ r.pattern.toks = Wildcard

RECURSIVE OptimizeRouteUnshift(_, _, _, _, _)
\* an optimizer that puts each matching entry at the front of optimizedPath
OptimizeRouteUnshift(tabs, route, table, i, optimizedPath) ==
    IF i > Len(table) THEN optimizedPath
    ELSE LET r == table[i] IN
         IF r.routeKey > route.routeKey THEN optimizedPath
         ELSE IF ~r.all /\ r.method # route.method
              THEN OptimizeRouteUnshift(tabs, route, table, i + 1, optimizedPath)
         ELSE IF OptMatches(r, route.path)
              THEN IF r.callback.t = "router"
                   THEN OptimizeRouteUnshift(tabs, route, table, i + 1,
                            OptimizeRouteUnshift(tabs, r, tabs[r.callback.r], 1, optimizedPath))
                   ELSE OptimizeRouteUnshift(tabs, route, table, i + 1, <<r>> \o optimizedPath)
         ELSE OptimizeRouteUnshift(tabs, route, table, i + 1, optimizedPath)

RECURSIVE OptimizeRoute(_, _, _, _, _)
\* #optimizeRoute's loop over table[i..]: the entries appended to optimizedPath
OptimizeRoute(tabs, route, table, i, optimizedPath) ==
    IF i > Len(table) THEN optimizedPath
    ELSE LET r == table[i] IN
         IF r.routeKey > route.routeKey THEN optimizedPath
         ELSE IF ~r.all /\ r.method # route.method
              THEN OptimizeRoute(tabs, route, table, i + 1, optimizedPath)
         ELSE IF OptMatches(r, route.path)
              THEN IF r.callback.t = "router"
                   THEN OptimizeRoute(tabs, route, table, i + 1,
                            OptimizeRoute(tabs, r, tabs[r.callback.r], 1, optimizedPath))
                   ELSE OptimizeRoute(tabs, route, table, i + 1, Append(optimizedPath, r))
         ELSE OptimizeRoute(tabs, route, table, i + 1, optimizedPath)

\* this.uwsApp[method](route.path, handler): a later registration of the same
\* method and path replaces the earlier one
RegisterUwsRoute(uws, route, optimizedPath) ==
    (<<route.method, route.path>> :> optimizedPath) @@ uws

\* an eligibility test that leaves the method out
EligibleAnyMethod(set, par, r, method, route) ==
    /\ route.pattern.kind = "str"
    /\ route.pattern.toks # Wildcard
    /\ par[r] = None
    /\ Get(set, par, r, CSR)

\* the eligibility test of #createRoute (router.js:101-103)
Eligible(set, par, r, method, route) ==
    /\ route.pattern.kind = "str"
    /\ route.pattern.toks # Wildcard
    /\ par[r] = None
    /\ Get(set, par, r, CSR)
    /\ method \in NativeMethods

\* an entry that takes the key of the last callback of its call as its own
MakeRouteGroupKey(method, path, callback, skipKey, key) ==
    [method |-> IF method = "USE" THEN "ALL" ELSE method,
     path |-> path,
     pattern |-> IF method = "USE" \/ NeedsConversionToRegex(path)
                 THEN PatternToRegex(path, method = "USE") ELSE StrPattern(path),
     callback |-> callback,
     routeSkipKey |-> skipKey,
     routeKey |-> skipKey,
     use |-> method = "USE",
     all |-> method = "ALL" \/ method = "USE"]

\* one route entry of #createRoute (router.js:90-99)
MakeRoute(method, path, callback, skipKey, key) ==
    [method |-> IF method = "USE" THEN "ALL" ELSE method,
     path |-> path,
     pattern |-> IF method = "USE" \/ NeedsConversionToRegex(path)
                 THEN PatternToRegex(path, method = "USE") ELSE StrPattern(path),
     callback |-> callback,
     routeSkipKey |-> skipKey,
     routeKey |-> key,
     use |-> method = "USE",
     all |-> method = "ALL" \/ method = "USE"]

RECURSIVE CreatePaths(_, _, _, _, _, _, _, _)
\* the loop over paths for one callback (router.js:83-107); st = [key, uws, made]
CreatePaths(st, tabs, set, par, r, method, paths, cbSkip) ==
    IF paths = <<>> THEN st
    ELSE LET route == MakeRoute(method, Head(paths), cbSkip[1], cbSkip[2], st.key)
             uws2 == IF Eligible(set, par, r, method, route)
                     THEN RegisterUwsRoute(st.uws, route,
                              Append(OptimizeRoute(tabs, route, tabs[r], 1, <<>>), route))
                     ELSE st.uws
         IN CreatePaths([key |-> st.key + 1, uws |-> uws2, made |-> Append(st.made, route)],
                        tabs, set, par, r, method, Tail(paths), cbSkip)

RECURSIVE CreateRoute(_, _, _, _, _, _, _, _)
\* the loop over callbacks (router.js:80-109); st = [key, uws, tabs]
CreateRoute(st, set, par, r, method, paths, callbacks, skipKey) ==
    IF callbacks = <<>> THEN st
    ELSE LET one == CreatePaths([key |-> st.key, uws |-> st.uws, made |-> <<>>],
                                st.tabs, set, par, r, method, paths,
                                <<Head(callbacks), skipKey>>)
         IN CreateRoute([key |-> one.key, uws |-> one.uws,
                         tabs |-> [st.tabs EXCEPT ![r] = @ \o one.made]],
                        set, par, r, method, paths, Tail(callbacks), skipKey)

\* #createRoute (router.js:77-112)
CreateRouteCall(r, method, paths, callbacks, par) ==
    CreateRoute([key |-> routeKey, uws |-> uwsRoutes, tabs |-> routes],
                settings, par, r, method, paths, callbacks,
                routeKey + Len(callbacks) - 1)

\* what the application has set up so far: route entries, param hooks, error
\* handlers and changed settings
Setup ==
    routeKey
    + Len(paramCallbacks["app"]["id"]) + Len(paramCallbacks["r1"]["id"])
    + Len(paramCallbacks["r2"]["id"])
    + Cardinality({r \in Routers : errorRoute[r]})
    + (IF settings["app"][CSR] THEN 0 ELSE 1)

Fits(paths, n) == Setup + Len(paths) * n <= MaxSetup

\* app.get / app.post / ... (path, ...callbacks)  (router.js:25-42)
Verb(r, method, paths, n) ==
    /\ ~listening
    /\ Fits(paths, n)
    /\ LET st == CreateRouteCall(r, method, paths, [i \in 1..n |-> FnCb], parent)
       IN /\ routeKey' = st.key
          /\ routes' = st.tabs
          /\ uwsRoutes' = st.uws
    /\ UNCHANGED <<errorRoute, parent, paramCallbacks, settings, listening, mountpathCache, req, req2>>

\* use(path, ...callbacks) with function callbacks (router.js:323-342)
UseFn(r, path, n) ==
    /\ ~listening
    /\ Fits(<<path>>, n)
    /\ LET st == CreateRouteCall(r, "USE", <<path>>, [i \in 1..n |-> FnCb], parent)
       IN /\ routeKey' = st.key
          /\ routes' = st.tabs
          /\ uwsRoutes' = st.uws
    /\ UNCHANGED <<errorRoute, parent, paramCallbacks, settings, listening, mountpathCache, req, req2>>

\* use(path, router): the router is mounted (router.js:335-341)
UseRouter(r, path, child) ==
    /\ ~listening
    /\ Fits(<<path>>, 1)
    /\ Rank[child] > Rank[r]
    /\ LET par == [parent EXCEPT ![child] = r]
           st == CreateRouteCall(r, "USE", <<path>>, <<RouterCb(child)>>, par)
       IN /\ parent' = par
          /\ routeKey' = st.key
          /\ routes' = st.tabs
          /\ uwsRoutes' = st.uws
    /\ UNCHANGED <<errorRoute, paramCallbacks, settings, listening, mountpathCache, req, req2>>

\* use(fn) with a four-argument function: the router's error handler (router.js:325-328)
UseError(r) ==
    /\ ~listening
    /\ Setup < MaxSetup
    /\ ~errorRoute[r]
    /\ errorRoute' = [errorRoute EXCEPT ![r] = TRUE]
    /\ UNCHANGED <<routeKey, routes, parent, paramCallbacks, settings, uwsRoutes, listening, mountpathCache, req, req2>>

\* param(name, fn) (router.js:237-248)
Param(r, name) ==
    /\ ~listening
    /\ Setup < MaxSetup
    /\ paramCallbacks' = [paramCallbacks EXCEPT ![r][name] = Append(@, Len(@) + 1)]
    /\ UNCHANGED <<routeKey, routes, errorRoute, parent, settings, uwsRoutes, listening, mountpathCache, req, req2>>

\* set(key, value), enable(key), disable(key) of an Application for a key
\* without side effects (application.js:71, 75-83)
SetSetting(r, key, value) ==
    /\ ~listening
    /\ settings' = [settings EXCEPT ![r] = (key :> value) @@ @]
    /\ UNCHANGED <<routeKey, routes, errorRoute, parent, paramCallbacks, uwsRoutes, listening, mountpathCache, req, req2>>

\* app.disable(key) (application.js:80-83)
Disable(r, key) ==
    /\ ~listening
    /\ Setup < MaxSetup
    /\ routeKey = 0              \* bound: settings are changed before routes are declared
    /\ r = "app"                 \* disable() is a method of the Application
    /\ settings[r][key]
    /\ settings' = [settings EXCEPT ![r][key] = FALSE]
    /\ UNCHANGED <<routeKey, routes, errorRoute, parent, paramCallbacks, uwsRoutes, listening, mountpathCache, req, req2>>


(***************************************************************************)
(* A request: the Request/Response pair and the position of its dispatch.  *)
(***************************************************************************)
NoCb == [t |-> None, k |-> -1, r |-> None]

\* new Request(req, res, app); new Response(res, request, app)
NewRequest(method, path) ==
    [st |-> "idle", mode |-> None, method |-> method, path |-> path,
     frames |-> <<>>,          \* the _routeRequest calls in progress: [r, i]
     stack |-> <<>>,           \* req._stack
     opPath |-> path,          \* req._opPath
     gotParams |-> {},         \* req._gotParams
     params |-> <<>>,          \* req.params
     hookq |-> <<>>,           \* the param hooks #preprocessRequest has yet to call
     running |-> NoCb,         \* the callback that was invoked and has not completed
     trace |-> <<>>,           \* the callbacks invoked, in order
     seen |-> <<>>,            \* req.params as each invoked callback found it
     behs |-> <<>>,            \* what each completed callback did
     matched |-> "pending",    \* what the top-level _routeRequest promise resolved to
     resp |-> "none",          \* who sent the response; headersSent is resp # "none"
     aborted |-> FALSE,        \* response.aborted
     rawAborted |-> FALSE,     \* res.aborted of the uWS response
     chain |-> <<>>,           \* optimizedPath of the native handler
     i |-> 0,                  \* its index i
     inTry |-> FALSE,          \* still inside the synchronous try of the native handler
     unhandled |-> FALSE,      \* an error escaped the engine
     cache |-> [r \in Routers |-> <<>>],   \* #mountpathCache as this dispatch reads and fills it
     hit |-> FALSE,            \* a matcher was taken from #mountpathCache
     late |-> FALSE,           \* the engine wrote a response after the response was sent
     again |-> 0]              \* handlers on the call stack that will call next() once more

NoRequest == NewRequest(None, <<>>)

HeadersSent(rq) == rq.resp # "none"

\* String.prototype.toLowerCase on one segment
Lower(seg) == IF seg = "A" THEN "a" ELSE IF seg = "B" THEN "b" ELSE seg
LowerPath(p) == [j \in 1..Len(p) |-> Lower(p[j])]

\* a cache keyed by the depth of the stack
MountpathKeyDepth(stack) == Len(stack)

\* the key of #mountpathCache: req._stack.join("") (router.js:50)
MountpathKey(stack) == Flatten(stack)

\* #getFullMountpath (router.js:49-57) of router r: the cached matcher of the
\* key, else the prefix matcher compiled from the joined stack
GetFullMountpath(rq, r, stack) ==
    IF MountpathKey(stack) \in DOMAIN rq.cache[r]
    THEN rq.cache[r][MountpathKey(stack)]
    ELSE PatternToRegex(Flatten(stack), TRUE)

\* a cache that stores the matcher of the whole request path under the key
CachedRequestPath(rq, r, stack) ==
    IF MountpathKey(stack) \in DOMAIN rq.cache[r]
    THEN [rq EXCEPT !.hit = TRUE]
    ELSE [rq EXCEPT !.cache[r] = (MountpathKey(stack) :> PatternToRegex(rq.path, TRUE)) @@ @]

\* the request after that call: a matcher compiled is stored under its key
\* (router.js:52-55)
Cached(rq, r, stack) ==
    IF MountpathKey(stack) \in DOMAIN rq.cache[r]
    THEN [rq EXCEPT !.hit = TRUE]
    ELSE [rq EXCEPT !.cache[r] = (MountpathKey(stack) :> PatternToRegex(Flatten(stack), TRUE)) @@ @]

\* #pathMatches (router.js:59-75)
PathMatches(r, route, rq) ==
    IF route.pattern.kind = "str"
    THEN \/ route.pattern.toks = Wildcard
         \/ IF ~Get(settings, parent, r, CSR)
            THEN LowerPath(route.pattern.toks) = LowerPath(rq.opPath)
            ELSE route.pattern.toks = rq.opPath
    ELSE RegexTest(route.pattern, rq.opPath)

Top(rq) == rq.frames[Len(rq.frames)]
TopRoute(rq) == routes[Top(rq).r][Top(rq).i]
SetI(rq, j) == [rq EXCEPT !.frames[Len(rq.frames)].i = j]

Invoke(rq, cb) ==
    [rq EXCEPT !.st = "run", !.running = cb, !.trace = Append(@, cb),
               !.seen = Append(@, rq.params)]
Quiet(rq) == [rq EXCEPT !.st = "quiet", !.running = NoCb, !.frames = <<>>, !.hookq = <<>>]

\* the top-level promise resolves (first resolve wins); the caller then sends
\* the 404 (application.js:107-112)
ResolveTop(rq, res) ==
    IF rq.matched # "pending" THEN rq
    ELSE LET r1 == [rq EXCEPT !.matched = res]
         IN IF res = "false" /\ ~rq.rawAborted /\ ~HeadersSent(rq)
            THEN [r1 EXCEPT !.resp = "404"] ELSE r1

\* the hooks #preprocessRequest will call for the entry (router.js:219-229)
HooksFor(r, route, params, got) ==
    LET idx == {j \in 1..Len(route.path) :
                   /\ IsParam(route.path[j])
                   /\ ParamName(route.path[j]) \in DOMAIN params
                   /\ paramCallbacks[r][ParamName(route.path[j])] # <<>>
                   /\ ParamName(route.path[j]) \notin got}
        F[j \in 0..Len(route.path)] ==
            IF j = 0 THEN <<>>
            ELSE IF j \in idx
                 THEN F[j-1] \o [h \in 1..Len(paramCallbacks[r][ParamName(route.path[j])]) |->
                                   [t |-> "hook", k |-> h, r |-> r, name |-> ParamName(route.path[j])]]
                 ELSE F[j-1]
    IN F[Len(route.path)]

HookCb(h) == [t |-> "hook", k |-> h.k, r |-> h.r]

RECURSIVE Advance(_)
RECURSIVE FrameEnd(_, _)
RECURSIVE Enter(_)

\* router.js:261-297: the sub-router is entered, or the terminal handler invoked
Enter(rq) ==
    LET f == Top(rq)
        route == TopRoute(rq)
    IN IF route.callback.t = "router"
       THEN LET stack2 == Append(rq.stack, route.path)
            IN Advance([Cached(rq, f.r, stack2) EXCEPT
                            !.stack = stack2,
                            !.opPath = RegexStrip(GetFullMountpath(rq, f.r, stack2), rq.path),
                            !.frames = Append(@, [r |-> route.callback.r, i |-> 1])])
       ELSE Invoke(rq, [t |-> "fn", k |-> route.routeKey, r |-> f.r])

\* the next hook is called, or the entry entered when none is left
NextHook(rq) ==
    IF rq.hookq = <<>> THEN Enter(rq)
    ELSE Invoke([rq EXCEPT !.hookq = Tail(@), !.gotParams = @ \cup {Head(rq.hookq).name}],
                HookCb(Head(rq.hookq)))

\* #preprocessRequest (router.js:210-235)
PreprocessRequest(rq) ==
    LET f == Top(rq)
        route == TopRoute(rq)
    IN IF NeedsConversionToRegex(route.path) /\ route.pattern.kind = "re"
       THEN LET path == IF rq.stack # <<>>
                        THEN RegexStrip(GetFullMountpath(rq, f.r, rq.stack), rq.path)
                        ELSE rq.path
                params == ExtractParams(route.pattern, path)
                r1 == IF rq.stack # <<>> THEN Cached(rq, f.r, rq.stack) ELSE rq
            IN NextHook([r1 EXCEPT !.params = params,
                                   !.hookq = HooksFor(f.r, route, params, rq.gotParams)])
       ELSE Enter([rq EXCEPT !.params = <<>>])

\* the while loop of _routeRequest up to the next callback it invokes
\* (router.js:252-260, 318-320)
Advance(rq) ==
    LET f == Top(rq)
    IN IF f.i > Len(routes[f.r]) THEN FrameEnd(rq, "false")
       ELSE IF rq.aborted THEN FrameEnd(rq, "false")
       ELSE LET route == routes[f.r][f.i]
            IN IF (route.all \/ route.method = rq.method) /\ PathMatches(f.r, route, rq)
               THEN PreprocessRequest(rq)
               ELSE Advance(SetI(rq, f.i + 1))

\* the innermost _routeRequest resolves res and returns; its caller goes on
\* (router.js:269-279, 311-316)
FrameEnd(rq, res) ==
    LET n == Len(rq.frames)
    IN IF n = 1 THEN ResolveTop(Quiet(rq), res)
       ELSE LET up == [rq EXCEPT !.frames = SubSeq(@, 1, n - 1)]
            IN IF res = "true" THEN FrameEnd(up, "true")
               ELSE LET stack2 == SubSeq(rq.stack, 1, Len(rq.stack) - 1)
                        op2 == IF stack2 # <<>>
                               THEN RegexStrip(GetFullMountpath(up, Top(up).r, stack2), rq.path)
                               ELSE rq.path
                        \* calledNext is false: resolve(true), then the loop goes on
                        me == ResolveTop(IF stack2 # <<>> THEN Cached(up, Top(up).r, stack2) ELSE up,
                                         "true")
                    IN Advance([me EXCEPT !.stack = stack2, !.opPath = op2,
                                          !.frames = <<[Top(up) EXCEPT !.i = @ + 1]>>])

(***************************************************************************)
(* What a callback may do with its continuation.                           *)
(*   "end"       returns without calling next (it answers the request)     *)
(*   "next"      calls next() before it returns                            *)
(*   "asyncNext" an async handler: calls next() after an await             *)
(*   "route"     calls next('route')                                       *)
(*   "throw"     throws                                                    *)
(*   "nextErr"   calls next(err), which throws err through the handler     *)
(*   "reject"    an async handler whose promise rejects                    *)
(* The generic walk awaits the handler, so there "asyncNext" is "next" and *)
(* "reject" is "throw"; the two are inputs of a native chain only.         *)
(* A handler may also send the response and go on:                         *)
(*   "sendNext"  sends the response, then calls next()                     *)
(*   "nextTwice" calls next() and, when that call returns, next() again    *)
(*   "sendThrow" sends the response, then throws                           *)
(***************************************************************************)
Behaviours == {"end", "next", "asyncNext", "route", "throw", "nextErr", "reject"}
GenericBehaviours == Behaviours \ {"asyncNext", "reject"}
HookBehaviours == {"next", "end"}
ErrorBehaviours == {"next", "end"}
SendBehaviours == {"sendNext", "sendThrow"}

Answer(rq) == IF HeadersSent(rq) THEN rq ELSE [rq EXCEPT !.resp = "handler"]

\* response.status(500).send(...) of the engine, called without a look at
\* headersSent (router.js:199, 307)
Send500(rq) ==
    IF HeadersSent(rq) THEN [rq EXCEPT !.late = TRUE] ELSE [rq EXCEPT !.resp = "500"]

\* the same behind if(!response.headersSent) (router.js:190-192)
Send500IfNotSent(rq) == IF HeadersSent(rq) THEN rq ELSE Send500(rq)

\* the index the 'route' loop of _routeRequest stops at (router.js:286-289);
\* 0 when it runs off the table, where this.#routes[i] is undefined
RouteSkipIndex(table, i, skipKey) ==
    IF \E j \in i..Len(table) : table[j].routeKey = skipKey
    THEN CHOOSE j \in i..Len(table) :
            /\ table[j].routeKey = skipKey
            /\ \A m \in i..(j-1) : table[m].routeKey # skipKey
    ELSE 0

\* the catch of _routeRequest (router.js:298-309)
WalkCatch(rq, calledNext) ==
    LET f == Top(rq)
    IN IF errorRoute[f.r]
       THEN Invoke(rq, [t |-> "err", k |-> -1, r |-> f.r])
       ELSE IF calledNext
            THEN Quiet(Send500(rq))                \* dontStop is false: return, nothing resolved
            ELSE FrameEnd(Send500(rq), "true")

\* a walk that goes on to the next entry whatever the handler did
WalkHandlerGoesOn(rq, b) == Advance(SetI(rq, Top(rq).i + 1))

\* the running terminal handler of the generic walk completes (router.js:281-317)
WalkHandlerDone(rq, b) ==
    LET f == Top(rq)
        table == routes[f.r]
    IN CASE b = "end" -> FrameEnd(Answer(rq), "true")
         [] b \in {"next", "asyncNext", "nextTwice"} -> Advance(SetI(rq, f.i + 1))
         [] b = "route" ->
              LET j == RouteSkipIndex(table, f.i, table[f.i].routeSkipKey)
              IN IF j = 0 THEN WalkCatch(rq, TRUE) ELSE Advance(SetI(rq, j + 1))
         [] b \in {"throw", "reject"} -> WalkCatch(rq, FALSE)
         [] b = "sendNext" -> Advance(SetI(Answer(rq), f.i + 1))
         [] b = "sendThrow" -> WalkCatch(Answer(rq), FALSE)
         [] OTHER -> WalkCatch(rq, TRUE)

\* the error handler called by the generic walk completes (router.js:300-304)
WalkErrorDone(rq, b) ==
    IF b = "next"
    THEN FrameEnd(rq, IF HeadersSent(rq) THEN "true" ELSE "false")
    ELSE FrameEnd(Answer(rq), "true")

\* a hook loop that does not wait for the continuation of the hook
HookDoneGoesOn(rq, b) == NextHook(rq)

\* a param hook completes (router.js:223-226)
HookDone(rq, b) ==
    IF b = "next" THEN NextHook(rq) ELSE Quiet(Answer(rq))

\* a callback of the generic walk completes
WalkStep(rq, b) ==
    LET r1 == [rq EXCEPT !.behs = Append(@, b)]
    IN CASE rq.running.t = "fn" -> WalkHandlerDone(r1, b)
         [] rq.running.t = "hook" -> HookDone(r1, b)
         [] OTHER -> WalkErrorDone(r1, b)

\* the catch-all handler of #createRequestHandler starts the walk (application.js:94-107)
WalkStart(rq) ==
    Advance([rq EXCEPT !.mode = "generic", !.frames = <<[r |-> "app", i |-> 1]>>])

(***************************************************************************)
(* The native handler of #registerUwsRoute (router.js:154-202).            *)
(***************************************************************************)
\* the router whose table holds the entry with this key
OwnerOf(key) == CHOOSE r \in Routers : \E j \in 1..Len(routes[r]) : routes[r][j].routeKey = key

ChainCb(e) == [t |-> "fn", k |-> e.routeKey, r |-> OwnerOf(e.routeKey)]

\* the catch of the native handler (router.js:187-200)
NativeCatch(rq) ==
    IF ~rq.inTry THEN Quiet([rq EXCEPT !.unhandled = TRUE])
    ELSE IF errorRoute["app"]
         THEN Invoke(rq, [t |-> "err", k |-> -1, r |-> "app"])
         ELSE Quiet(Send500(rq))

\* the index the 'route' loop of the native next stops at (router.js:171-174),
\* counted from 1: the first entry at or after i whose key is skipKey, else the last
ChainSkipIndex(chain, i, skipKey) ==
    IF \E j \in i..(Len(chain) - 1) : chain[j].routeKey = skipKey
    THEN CHOOSE j \in i..(Len(chain) - 1) :
            /\ chain[j].routeKey = skipKey
            /\ \A m \in i..(j-1) : chain[m].routeKey # skipKey
    ELSE Len(chain)

RECURSIVE NativeReturn(_)
\* a handler of the chain, or next(), returns to the handler that called
\* next(): the chain is run by nested synchronous calls (router.js:183), so a
\* handler that calls next() once more does it now: i++ and the entry at i is
\* called, if there is one (router.js:168, 179-183)
NativeReturn(rq) ==
    IF rq.again = 0 THEN Quiet(rq)
    ELSE LET r1 == [rq EXCEPT !.again = @ - 1, !.i = @ + 1]
         IN IF r1.i > Len(rq.chain) THEN NativeReturn(r1)
            ELSE Invoke(r1, ChainCb(rq.chain[r1.i]))

\* next() of the native handler moved i to entry j (counted from 1)
NativeGo(rq, j) ==
    IF j > Len(rq.chain) THEN NativeReturn([rq EXCEPT !.i = j])
    ELSE Invoke([rq EXCEPT !.i = j], ChainCb(rq.chain[j]))

\* the running handler of the native chain completes
NativeHandlerDone(rq, b) ==
    CASE b = "end" -> NativeReturn(Answer(rq))
      [] b = "next" -> NativeGo(rq, rq.i + 1)
      [] b = "nextTwice" -> NativeGo([rq EXCEPT !.again = @ + 1], rq.i + 1)
      [] b = "asyncNext" -> NativeGo([rq EXCEPT !.inTry = FALSE], rq.i + 1)
      [] b = "route" ->
            NativeGo(rq, ChainSkipIndex(rq.chain, rq.i, rq.chain[rq.i].routeSkipKey) + 1)
      [] b = "reject" -> Quiet([rq EXCEPT !.unhandled = TRUE, !.inTry = FALSE])
      [] b = "sendNext" -> NativeGo(Answer(rq), rq.i + 1)
      [] b = "sendThrow" -> NativeCatch(Answer(rq))
      [] OTHER -> NativeCatch(rq)

\* the error handler called by the native handler completes (router.js:189-196)
NativeErrorDone(rq, b) ==
    IF b = "next" THEN Quiet(Send500IfNotSent(rq)) ELSE Quiet(Answer(rq))

NativeStep(rq, b) ==
    LET r1 == [rq EXCEPT !.behs = Append(@, b)]
    IN IF rq.running.t = "fn" THEN NativeHandlerDone(r1, b) ELSE NativeErrorDone(r1, b)

\* the native handler starts: optimizedPath[0] is called (router.js:164-186)
NativeStart(rq, chain) ==
    Invoke([rq EXCEPT !.mode = "native", !.chain = chain, !.i = 1, !.inTry = TRUE],
           ChainCb(chain[1]))

(***************************************************************************)
(* Serving.                                                                *)
(***************************************************************************)
ReqMethods == {"GET", "SEARCH"}
ReqPaths == {<<"a">>, <<"b">>, <<"a", "b">>, <<"A">>}

\* listen(): the catch-all handler is registered and the port opened
Listen ==
    /\ ~listening
    /\ listening' = TRUE
    /\ UNCHANGED <<routeKey, routes, errorRoute, parent, paramCallbacks, settings, uwsRoutes, mountpathCache, req, req2>>

\* the transport hands a request to the handler registered for its method and
\* path, else to the catch-all handler
Serve(rq) ==
    IF <<rq.method, rq.path>> \in DOMAIN uwsRoutes
    THEN NativeStart(rq, uwsRoutes[<<rq.method, rq.path>>])
    ELSE WalkStart(rq)

\* the request as its next step finds it: #mountpathCache belongs to the
\* routers and is shared by the requests in flight
Shared(rq) == [rq EXCEPT !.cache = mountpathCache]

Request(method, path) ==
    /\ listening
    /\ req.st = "idle"
    /\ req' = Serve(Shared(NewRequest(method, path)))
    /\ mountpathCache' = req'.cache
    /\ UNCHANGED <<routeKey, routes, errorRoute, parent, paramCallbacks, settings, uwsRoutes, listening, req2>>

\* the dispatch of the request has come to rest: the model forgets the request
Retire ==
    /\ req.st = "quiet"
    /\ req' = NoRequest
    /\ UNCHANGED <<routeKey, routes, errorRoute, parent, paramCallbacks, settings, uwsRoutes, listening, mountpathCache, req2>>

BehavioursOf(rq) ==
    CASE rq.running.t = "hook" -> HookBehaviours
      [] rq.running.t = "err" -> ErrorBehaviours
      [] rq.mode = "generic" -> GenericBehaviours
      [] OTHER -> Behaviours

\* the running callback completes and the engine goes on to the next one
Complete(b) ==
    /\ req.st = "run"
    /\ b \in BehavioursOf(req)
    /\ req' = IF req.mode = "native" THEN NativeStep(Shared(req), b)
              ELSE WalkStep(Shared(req), b)
    /\ mountpathCache' = req'.cache
    /\ UNCHANGED <<routeKey, routes, errorRoute, parent, paramCallbacks, settings, uwsRoutes, listening, req2>>

\* the running handler sends the response and then goes on
HandlerSends(b) ==
    /\ req.st = "run"
    /\ req.running.t = "fn"
    /\ b \in SendBehaviours
    /\ req' = IF req.mode = "native" THEN NativeStep(Shared(req), b)
              ELSE WalkStep(Shared(req), b)
    /\ mountpathCache' = req'.cache
    /\ UNCHANGED <<routeKey, routes, errorRoute, parent, paramCallbacks, settings, uwsRoutes, listening, req2>>

\* the running handler calls next() and, when that call returns, next() again
CallsNextTwice ==
    /\ req.st = "run"
    /\ req.running.t = "fn"
    /\ req' = IF req.mode = "native" THEN NativeStep(Shared(req), "nextTwice")
              ELSE WalkStep(Shared(req), "nextTwice")
    /\ mountpathCache' = req'.cache
    /\ UNCHANGED <<routeKey, routes, errorRoute, parent, paramCallbacks, settings, uwsRoutes, listening, req2>>

\* the same three steps of the second request in flight
Request2(method, path) ==
    /\ listening
    /\ req2.st = "idle"
    /\ req2' = Serve(Shared(NewRequest(method, path)))
    /\ mountpathCache' = req2'.cache
    /\ UNCHANGED <<routeKey, routes, errorRoute, parent, paramCallbacks, settings, uwsRoutes, listening, req>>

Complete2(b) ==
    /\ req2.st = "run"
    /\ b \in BehavioursOf(req2)
    /\ req2' = IF req2.mode = "native" THEN NativeStep(Shared(req2), b)
               ELSE WalkStep(Shared(req2), b)
    /\ mountpathCache' = req2'.cache
    /\ UNCHANGED <<routeKey, routes, errorRoute, parent, paramCallbacks, settings, uwsRoutes, listening, req>>

Retire2 ==
    /\ req2.st = "quiet"
    /\ req2' = NoRequest
    /\ UNCHANGED <<routeKey, routes, errorRoute, parent, paramCallbacks, settings, uwsRoutes, listening, mountpathCache, req>>

\* the peer closes the connection while a callback is suspended: the onAborted
\* callback of the handler serving the request runs (router.js:155-157,
\* application.js:100-105)
Abort ==
    /\ req.st = "run"
    /\ ~req.aborted /\ ~req.rawAborted
    /\ req' = IF req.mode = "native"
              THEN [req EXCEPT !.rawAborted = TRUE, !.inTry = FALSE]
              ELSE [req EXCEPT !.aborted = TRUE]
    /\ UNCHANGED <<routeKey, routes, errorRoute, parent, paramCallbacks, settings, uwsRoutes, listening, mountpathCache, req2>>

(***************************************************************************)
(* The specification.                                                      *)
(***************************************************************************)
\* The registration calls the model draws from: <<router, method, path>>.
\* SEARCH is a verb of router.js:8-14 that uWS does not dispatch natively.
VerbCalls ==
    {<<"app", m, p>> : m \in {"GET", "SEARCH"}, p \in {<<"a">>, <<"a", "b">>, <<":id">>}}
    \cup {<<"app", "ALL", <<"a">>>>}
    \cup {<<"r1", "GET", p>> : p \in {<<"b">>, <<":id">>}}
    \cup {<<"r2", "GET", <<"b">>>>}
ArrayCalls == {<<"app", m, <<<<"a">>, <<"a", "b">>>>>> : m \in {"GET", "SEARCH"}}
UseCalls ==
    {<<"app", p>> : p \in {<<>>, <<"a">>, <<":id">>}} \cup {<<"r1", <<>>>>, <<"r2", <<>>>>}
MountCalls ==
    {<<"app", p, "r1">> : p \in {<<>>, <<"a">>, <<":id">>}}
    \cup {<<"app", <<>>, "r2">>, <<"r1", <<>>, "r2">>}
ParamCalls == {<<"app", "id">>, <<"r1", "id">>}
ErrorCalls == {"app", "r1"}

Init ==
    /\ routeKey = 0
    /\ routes = [r \in Routers |-> <<>>]
    /\ errorRoute = [r \in Routers |-> FALSE]
    /\ parent = [r \in Routers |-> None]
    /\ paramCallbacks = [r \in Routers |-> [n \in ParamNames |-> <<>>]]
    /\ settings = [r \in Routers |-> IF r = "app" THEN (CSR :> TRUE) ELSE <<>>]
    /\ uwsRoutes = <<>>
    /\ listening = FALSE
    /\ mountpathCache = [r \in Routers |-> <<>>]
    /\ req = NoRequest
    /\ req2 = NoRequest

Next ==
    \/ \E c \in VerbCalls, n \in 1..MaxCallbacks : Verb(c[1], c[2], <<c[3]>>, n)
    \/ \E c \in ArrayCalls : Verb(c[1], c[2], c[3], 1)
    \/ \E c \in UseCalls, n \in 1..MaxCallbacks : UseFn(c[1], c[2], n)
    \/ \E c \in MountCalls : UseRouter(c[1], c[2], c[3])
    \/ \E r \in ErrorCalls : UseError(r)
    \/ \E c \in ParamCalls : Param(c[1], c[2])
    \/ Disable("app", CSR)
    \/ Listen
    \/ \E m \in ReqMethods, p \in ReqPaths : Request(m, p)
    \/ \E b \in Behaviours : Complete(b)
    \/ Abort
    \/ Retire

Spec == Init /\ [][Next]_vars

\* The same program with templates of two parameters and paths of one to
\* three segments.
TemplateCalls ==
    {<<"app", m, <<":a", ":b">>>> : m \in {"GET", "SEARCH"}} \cup {<<"app", "GET", <<"x", "y">>>>}
TemplatePaths == {<<"x">>, <<"x", "y">>, <<"y", "x">>, <<"x", "y", "x">>}

NextParams ==
    \/ \E c \in TemplateCalls, n \in 1..MaxCallbacks : Verb(c[1], c[2], <<c[3]>>, n)
    \/ Listen
    \/ \E m \in ReqMethods, p \in TemplatePaths : Request(m, p)
    \/ \E b \in Behaviours : Complete(b)
    \/ Abort
    \/ Retire

SpecParams == Init /\ [][NextParams]_vars

\* The same program with handlers that send the response and go on, for
\* routes of one literal path served by a native chain (GET) or by the
\* generic walk (SEARCH).
SendCalls == {<<"app", m, <<"a">>>> : m \in {"GET", "SEARCH"}}

NextSend ==
    \/ \E c \in SendCalls, n \in 1..MaxCallbacks : Verb(c[1], c[2], <<c[3]>>, n)
    \/ UseError("app")
    \/ Listen
    \/ \E m \in ReqMethods : Request(m, <<"a">>)
    \/ \E b \in Behaviours : Complete(b)
    \/ \E b \in SendBehaviours : HandlerSends(b)
    \/ Retire

SpecSend == Init /\ [][NextSend]_vars

\* The registrations of routes of every kind: native and other methods,
\* all(), literal, wildcard and parameter paths, on the application and on a
\* router before and after it is mounted, with case sensitive routing on or off.
NativeCalls ==
    {<<"app", m, p>> : m \in {"GET", "POST", "SEARCH", "ALL"}, p \in {<<"a">>, Wildcard, <<":id">>}}
    \cup {<<"r1", "GET", <<"a">>>>}

NextNative ==
    \/ \E c \in NativeCalls, n \in 1..MaxCallbacks : Verb(c[1], c[2], <<c[3]>>, n)
    \/ \E p \in {<<>>, <<"a">>} : UseFn("app", p, 1)
    \/ UseRouter("app", <<>>, "r1")
    \/ Disable("app", CSR)

SpecNative == Init /\ [][NextNative]_vars

\* The application after r1.use(mw); app.use(r1); app.get('/a', h), each
\* registration made by #createRoute, with an error handler on any of the two
\* routers: the requests it serves.
NoTables == [key |-> 0, uws |-> <<>>, tabs |-> [r \in Routers |-> <<>>]]
AppSettings == [r \in Routers |-> IF r = "app" THEN (CSR :> TRUE) ELSE <<>>]
NoParent == [r \in Routers |-> None]
MountedR1 == [NoParent EXCEPT !["r1"] = "app"]
AfterSubUse == CreateRoute(NoTables, AppSettings, NoParent, "r1", "USE", <<<<>>>>, <<FnCb>>, 0)
AfterMount ==
    CreateRoute(AfterSubUse, AppSettings, MountedR1, "app", "USE", <<<<>>>>,
                <<RouterCb("r1")>>, AfterSubUse.key)
AfterGet ==
    CreateRoute(AfterMount, AppSettings, MountedR1, "app", "GET", <<<<"a">>>>,
                <<FnCb>>, AfterMount.key)

InitErrors ==
    /\ routeKey = AfterGet.key
    /\ routes = AfterGet.tabs
    /\ uwsRoutes = AfterGet.uws
    /\ errorRoute \in {e \in [Routers -> BOOLEAN] : ~e["r2"]}
    /\ parent = MountedR1
    /\ paramCallbacks = [r \in Routers |-> [n \in ParamNames |-> <<>>]]
    /\ settings = AppSettings
    /\ listening = FALSE
    /\ mountpathCache = [r \in Routers |-> <<>>]
    /\ req = NoRequest
    /\ req2 = NoRequest

NextErrors ==
    \/ Listen
    \/ \E m \in ReqMethods, p \in {<<"a">>, <<"b">>} : Request(m, p)
    \/ \E b \in Behaviours : Complete(b)
    \/ Abort
    \/ Retire

SpecErrors == InitErrors /\ [][NextErrors]_vars

\* Two requests in flight at once, interleaved at the suspension points of
\* handlers and param hooks, over routes below a mount path, with param
\* hooks and a native chain.
TwoCalls == {<<"r1", "GET", <<"b">>>>, <<"r1", "GET", <<":id">>>>, <<"app", "GET", <<"a", "b">>>>}
TwoMounts == {<<"app", <<"a">>, "r1">>, <<"app", <<>>, "r1">>}
TwoPaths == {<<"a", "b">>, <<"b">>}

NextTwo ==
    \/ \E c \in TwoCalls : Verb(c[1], c[2], <<c[3]>>, 1)
    \/ \E c \in TwoMounts : UseRouter(c[1], c[2], c[3])
    \/ \E r \in {"app", "r1"} : Param(r, "id")
    \/ Listen
    \/ \E p \in TwoPaths : Request("GET", p)
    \/ \E p \in TwoPaths : Request2("GET", p)
    \/ \E b \in Behaviours : Complete(b)
    \/ \E b \in Behaviours : Complete2(b)
    \/ Retire
    \/ Retire2

SpecTwo == Init /\ [][NextTwo]_vars

\* Synchronous handlers that end the request, call next() or call next()
\* twice, on routes of one literal path served by a native chain (GET) or by
\* the generic walk (SEARCH), with middleware before and after them.
TwiceCalls == {<<"app", m, <<"a">>>> : m \in {"GET", "SEARCH"}}

NextTwice ==
    \/ \E c \in TwiceCalls, n \in 1..MaxCallbacks : Verb(c[1], c[2], <<c[3]>>, n)
    \/ UseFn("app", <<>>, 1)
    \/ Listen
    \/ \E m \in ReqMethods : Request(m, <<"a">>)
    \/ \E b \in {"end", "next"} : Complete(b)
    \/ CallsNextTwice
    \/ Retire

SpecTwice == Init /\ [][NextTwice]_vars

\* The settings of an application "app", a second application "r1" (its
\* constructor has filled in the defaults, application.js:30-38) and a plain
\* router "r2", set and mounted in any order.
Applications == {"app", "r1"}
SettingKeys == {CSR, "strict routing"}

InitSettings ==
    /\ routeKey = 0
    /\ routes = [r \in Routers |-> <<>>]
    /\ errorRoute = [r \in Routers |-> FALSE]
    /\ parent = [r \in Routers |-> None]
    /\ paramCallbacks = [r \in Routers |-> [n \in ParamNames |-> <<>>]]
    /\ settings = [r \in Routers |-> IF r \in Applications THEN (CSR :> TRUE) ELSE <<>>]
    /\ uwsRoutes = <<>>
    /\ listening = FALSE
    /\ mountpathCache = [r \in Routers |-> <<>>]
    /\ req = NoRequest
    /\ req2 = NoRequest

NextSettings ==
    \/ \E r \in Applications, key \in SettingKeys, v \in BOOLEAN : SetSetting(r, key, v)
    \/ \E c \in {<<"app", "r1">>, <<"app", "r2">>, <<"r1", "r2">>} : UseRouter(c[1], <<>>, c[2])

SpecSettings == InitSettings /\ [][NextSettings]_vars

(***************************************************************************)
(* Properties.  A request is judged once its dispatch has come to rest     *)
(* (req.st = "quiet"): req.trace lists the callbacks that were invoked,    *)
(* req.behs what each of them did, req.resp who answered.                  *)
(***************************************************************************)
FnAt(rq, n) == n \in 1..Len(rq.trace) /\ rq.trace[n].t = "fn"
Count(rq, cb) == Cardinality({n \in 1..Len(rq.trace) : rq.trace[n] = cb})
Undisturbed(rq) == ~rq.aborted /\ ~rq.rawAborted

\* the generic walk driven by the same behaviours, callback by callback
RECURSIVE Replay(_, _)
Replay(rq, behs) ==
    IF rq.st # "run" \/ behs = <<>> THEN rq
    ELSE Replay(WalkStep(rq, Head(behs)), Tail(behs))

\* what the catch-all handler would have done with the request
GenericWalkOf(rq) == Replay(WalkStart(NewRequest(rq.method, rq.path)), rq.behs)

\* C1: a request served by a native chain invokes the callbacks the generic
\* walk would invoke for the same method and path, in the same order, and
\* ends with the same response.
NativeChainIsGenericWalk ==
    (req.st = "quiet" /\ req.mode = "native" /\ Undisturbed(req)) =>
        LET g == GenericWalkOf(req)
        IN g.st = "quiet" /\ g.trace = req.trace /\ g.resp = req.resp

\* the callback of a terminal entry of router r, as req.trace records it
CbOf(r, e) == [t |-> "fn", k |-> e.routeKey, r |-> r]

CalledNext(b) == b \in {"next", "asyncNext"}

\* every callback invoked before the first call of cb (all of them when cb
\* was never called) invoked its continuation
AllBeforeCalledNext(rq, cb) ==
    \A n \in 1..Len(rq.behs) :
        (\A m \in 1..n : rq.trace[m] # cb) => CalledNext(rq.behs[n])

\* the entries of the root table registered by a method verb for the literal
\* path and the method of the request
LiteralRootEntries(rq) ==
    {j \in 1..Len(routes["app"]) :
        LET e == routes["app"][j]
        IN /\ ~e.use /\ ~e.all /\ e.callback.t = "fn"
           /\ e.pattern.kind = "str"
           /\ e.method = rq.method /\ e.pattern.toks = rq.path}

\* C2: a request for the method and literal path of a root-level verb entry
\* invokes that entry's handler exactly once, native chain or generic walk,
\* when every callback invoked before it called its continuation.
LiteralRouteInvokedOnce ==
    (req.st = "quiet" /\ Undisturbed(req)) =>
        \A j \in LiteralRootEntries(req) :
            AllBeforeCalledNext(req, CbOf("app", routes["app"][j]))
                => Count(req, CbOf("app", routes["app"][j])) = 1

\* the root table begins with use('/a', mw) and get('/a/b', h)
UseThenGet ==
    LET t == routes["app"]
    IN /\ Len(t) >= 2
       /\ t[1].use /\ t[1].callback.t = "fn" /\ t[1].path = <<"a">>
       /\ ~t[2].use /\ ~t[2].all /\ t[2].callback.t = "fn"
       /\ t[2].method = "GET" /\ t[2].path = <<"a", "b">>

\* C3: after use('/a', mw) and get('/a/b', h), with mw calling its
\* continuation, GET /a/b invokes mw and then h, each once; GET /a invokes mw
\* only, never h, and is answered 404 when the table holds nothing else.  The
\* request is one the peer does not abort.
UseThenGetScenario ==
    (/\ UseThenGet /\ req.method = "GET" /\ Undisturbed(req)
     /\ Len(req.behs) >= 1 /\ CalledNext(req.behs[1])) =>
        LET mw == CbOf("app", routes["app"][1])
            h == CbOf("app", routes["app"][2])
        IN /\ req.path = <<"a", "b">> =>
                /\ Len(req.trace) >= 2 /\ req.trace[1] = mw /\ req.trace[2] = h
                /\ Count(req, mw) = 1 /\ Count(req, h) = 1
           /\ req.path = <<"a">> =>
                /\ req.trace[1] = mw /\ Count(req, mw) = 1 /\ Count(req, h) = 0
                /\ (Len(routes["app"]) = 2 /\ req.st = "quiet") => req.resp = "404"

\* GET /a/b was served by the native chain, which called mw and then h
UseThenGetServed ==
    /\ UseThenGet /\ req.st = "quiet" /\ req.mode = "native" /\ Undisturbed(req)
    /\ req.method = "GET" /\ req.path = <<"a", "b">>
    /\ CalledNext(req.behs[1])
    /\ req.trace = <<CbOf("app", routes["app"][1]), CbOf("app", routes["app"][2])>>

\* the entry of router r with this key
EntryOf(r, key) == routes[r][CHOOSE j \in 1..Len(routes[r]) : routes[r][j].routeKey = key]
IndexOf(r, key) == CHOOSE j \in 1..Len(routes[r]) : routes[r][j].routeKey = key

\* the handler group of a callback of the trace: the entries of its router
\* made by the same registration call share routeSkipKey (router.js:79)
GroupOf(cb) == <<cb.r, EntryOf(cb.r, cb.k).routeSkipKey>>

\* the root entries after index i, outside group g, that match the request
LaterIndependent(rq, i, g) ==
    {j \in (i + 1)..Len(routes["app"]) :
        LET e == routes["app"][j]
        IN /\ <<"app", e.routeSkipKey>> # g
           /\ (e.all \/ e.method = rq.method)
           /\ PathMatches("app", e, [rq EXCEPT !.opPath = rq.path])}

\* C4: when a root-level handler calls its continuation with 'route', no
\* other entry of its handler group is invoked afterwards, and the first
\* matching entry registered by a later call is invoked next; in the generic
\* walk and in a native chain, for one path or an array of paths.
RouteSkipsTheGroupOnly ==
    (req.st = "quiet" /\ Undisturbed(req)) =>
        \A n \in 1..Len(req.behs) :
            (FnAt(req, n) /\ req.behs[n] = "route" /\ req.trace[n].r = "app") =>
                LET g == GroupOf(req.trace[n])
                    later == LaterIndependent(req, IndexOf("app", req.trace[n].k), g)
                    first == CHOOSE j \in later : \A k \in later : j <= k
                    e == routes["app"][first]
                IN /\ \A m \in (n + 1)..Len(req.trace) :
                          FnAt(req, m) => GroupOf(req.trace[m]) # g
                   /\ (later # {} /\ e.callback.t = "fn" /\ ~NeedsConversionToRegex(e.path)) =>
                          /\ n < Len(req.trace)
                          /\ req.trace[n + 1] = CbOf("app", e)

\* the entry captures a parameter for which its router has hooks
HasHookedParam(r, e) ==
    \E j \in 1..Len(e.path) :
        IsParam(e.path[j]) /\ paramCallbacks[r][ParamName(e.path[j])] # <<>>

\* C5: within one request the hooks of a parameter name fire once: no hook is
\* called twice, the hooks called belong to one router (the first whose
\* matching entry captured the name), and they have been called before the
\* handler of any entry that captures the name in a router with hooks for it.
ParamHooksFireOnce ==
    /\ \A n, m \in 1..Len(req.trace) :
          (n < m /\ req.trace[n].t = "hook" /\ req.trace[m].t = "hook") =>
              (req.trace[n] # req.trace[m] /\ req.trace[n].r = req.trace[m].r)
    /\ \A n \in 1..Len(req.trace) :
          (FnAt(req, n) /\ HasHookedParam(req.trace[n].r, EntryOf(req.trace[n].r, req.trace[n].k))) =>
              \E m \in 1..(n - 1) : req.trace[m].t = "hook"

\* the mount entries of router c: <<router, index>>
MountsOf(c) ==
    {x \in UNION {{<<r, j>> : j \in 1..Len(routes[r])} : r \in Routers} :
        routes[x[1]][x[2]].callback = RouterCb(c)}

\* C6: for a router mounted once, on the root, with use(P, router) and an
\* entry of it declared with method M and literal path T: a request M P+T
\* invokes the entry's handler (when every callback invoked before it called
\* its continuation), and a request M T without the prefix does not.
MountedEntryMatchesUnderPrefix ==
    (req.st = "quiet" /\ Undisturbed(req)) =>
        \A c \in Routers \ {"app"} : \A mnt \in MountsOf(c) :
            (Cardinality(MountsOf(c)) = 1 /\ mnt[1] = "app") =>
                \A j \in 1..Len(routes[c]) :
                    LET P == routes["app"][mnt[2]].path
                        e == routes[c][j]
                    IN (/\ e.callback.t = "fn" /\ ~e.use /\ ~e.all
                        /\ e.pattern.kind = "str" /\ e.method = req.method) =>
                          /\ (/\ RegexTest(PatternToRegex(P \o e.path, FALSE), req.path)
                              /\ AllBeforeCalledNext(req, CbOf(c, e)))
                                 => Count(req, CbOf(c, e)) >= 1
                          /\ (P # <<>> /\ req.path = e.path)
                                 => Count(req, CbOf(c, e)) = 0

\* C7: a request served by the generic walk in which no entry claims the
\* request (every callback invoked called its continuation, every mounted
\* router ran out of entries) is reported not handled and answered 404,
\* unless the connection was aborted.
UnclaimedRequestGets404 ==
    (/\ req.st = "quiet" /\ req.mode = "generic" /\ Undisturbed(req)
     /\ \A n \in 1..Len(req.behs) : CalledNext(req.behs[n])) =>
        (req.matched = "false" /\ req.resp = "404")

Failed(b) == b \in {"throw", "nextErr", "reject"}
ErrCb(r) == [t |-> "err", k |-> -1, r |-> r]

\* C8: when a terminal handler throws, rejects or calls its continuation
\* with an error, the error handler of the router owning the entry is
\* invoked next with that error, or, the router having none, the engine
\* answers 500; and no later handler of that router (mounted at most once) is
\* invoked.  In the generic walk and in a native chain.
ErrorGoesToOwningRouter ==
    (req.st = "quiet" /\ Undisturbed(req)) =>
        \A n \in 1..Len(req.behs) :
            (FnAt(req, n) /\ Failed(req.behs[n])) =>
                LET r == req.trace[n].r
                IN /\ IF errorRoute[r]
                      THEN n < Len(req.trace) /\ req.trace[n + 1] = ErrCb(r)
                      ELSE req.resp = "500"
                   /\ Cardinality(MountsOf(r)) <= 1 =>
                         \A m \in (n + 1)..Len(req.trace) :
                             FnAt(req, m) => req.trace[m].r # r

\* C9: in the generic walk a terminal handler that completes without having
\* called its continuation ends the dispatch: the request is reported
\* handled and no callback is invoked after it.
HandlerWithoutNextStopsWalk ==
    req.mode = "generic" =>
        \A n \in 1..Len(req.behs) :
            (FnAt(req, n) /\ req.behs[n] = "end") =>
                /\ n = Len(req.trace)
                /\ req.st = "quiet"
                /\ req.matched = "true"

\* a handler of a mounted router ended the walk although the root table
\* holds a later middleware that matches every request
WalkStoppedInsideMount ==
    /\ req.mode = "generic" /\ req.st = "quiet"
    /\ Len(req.trace) >= 1 /\ Len(req.behs) = Len(req.trace)
    /\ FnAt(req, Len(req.trace)) /\ req.behs[Len(req.behs)] = "end"
    /\ req.trace[Len(req.trace)].r # "app"
    /\ \E j \in 1..Len(routes["app"]) :
          /\ routes["app"][j].routeKey > req.trace[Len(req.trace)].k
          /\ routes["app"][j].use /\ routes["app"][j].callback.t = "fn"
          /\ routes["app"][j].path = <<>>

\* the handlers of one router were invoked in strictly ascending routeKey order
AscendingPerRouter(rq) ==
    \A n, m \in 1..Len(rq.trace) :
        (n < m /\ FnAt(rq, n) /\ FnAt(rq, m) /\ rq.trace[n].r = rq.trace[m].r) =>
            rq.trace[n].k < rq.trace[m].k

\* the handlers of router c were invoked after the invoked entries of its
\* parent that precede the mount entry and before those that follow it
AroundMount(rq, c) ==
    \A mnt \in MountsOf(c) : \A n, m \in 1..Len(rq.trace) :
        (/\ FnAt(rq, n) /\ rq.trace[n].r = c
         /\ FnAt(rq, m) /\ rq.trace[m].r = mnt[1]) =>
            LET key == routes[mnt[1]][mnt[2]].routeKey
            IN /\ rq.trace[m].k < key => m < n
               /\ rq.trace[m].k > key => n < m

\* C10: within one request the handlers of any one router are invoked in
\* strictly ascending routeKey order, each at most once, and the handlers of
\* a mounted router between the parent entries before and after its mount
\* entry.
AscendingKeyOrder ==
    AscendingPerRouter(req) /\ \A c \in Routers : AroundMount(req, c)

\* no router is mounted more than once
MountedOnce == \A c \in Routers : Cardinality(MountsOf(c)) <= 1

\* C10, amended: the ordering holds when no router is mounted more than once
\* (a router mounted twice is walked once per mount entry, so its handlers
\* are invoked again).
AscendingKeyOrderMountedOnce ==
    MountedOnce => (AscendingPerRouter(req) /\ \A c \in Routers : AroundMount(req, c))

\* a handler of the mounted router was invoked, called its continuation, and
\* a handler of the root registered after the mount entry was invoked next
WalkedThroughMount ==
    /\ MountedOnce /\ req.st = "quiet" /\ Len(req.trace) = 2
    /\ FnAt(req, 1) /\ req.trace[1].r = "r1"
    /\ FnAt(req, 2) /\ req.trace[2].r = "app"
    /\ \E mnt \in MountsOf("r1") :
          mnt[1] = "app" /\ routes["app"][mnt[2]].routeKey < req.trace[2].k

\* the dispatch of either engine driven by the given behaviours
RECURSIVE ReplayAny(_, _)
ReplayAny(rq, behs) ==
    IF rq.st # "run" \/ behs = <<>> THEN rq
    ELSE ReplayAny(IF rq.mode = "native" THEN NativeStep(rq, Head(behs))
                   ELSE WalkStep(rq, Head(behs)),
                   Tail(behs))

\* the same request served first, before any matcher was cached
ServedFirst(rq) == ReplayAny(Serve(NewRequest(rq.method, rq.path)), rq.behs)

\* C11: dispatch is a function of the route table: a request served after
\* any number of others (whatever #mountpathCache holds by then) invokes the
\* callbacks, and ends with the outcome, of the same request served first
\* with callbacks behaving the same.
DispatchIsDeterministic ==
    (req.st # "idle" /\ Undisturbed(req)) =>
        LET f == ServedFirst(req)
        IN /\ f.trace = req.trace /\ f.st = req.st /\ f.running = req.running
           /\ f.resp = req.resp /\ f.matched = req.matched
           /\ f.params = req.params /\ f.opPath = req.opPath /\ f.stack = req.stack

\* a request that went through a mounted router found its matcher cached by
\* an earlier request and invoked a handler of that router
ServedFromCache ==
    /\ req.st = "quiet" /\ req.hit /\ ~ServedFirst(req).hit /\ Undisturbed(req)
    /\ \E n \in 1..Len(req.trace) : FnAt(req, n) /\ req.trace[n].r # "app"

TwoParams == <<":a", ":b">>

\* C12: a handler registered with the template /:a/:b is invoked only for a
\* path of exactly two segments /x/y and finds req.params = {a: x, b: y};
\* and a request of its method with such a path invokes it when every
\* callback invoked before it called its continuation.
TwoParamsCaptured ==
    /\ \A n \in 1..Len(req.trace) :
          (FnAt(req, n) /\ EntryOf(req.trace[n].r, req.trace[n].k).path = TwoParams) =>
              /\ Len(req.path) = 2
              /\ req.seen[n] = ("a" :> req.path[1]) @@ ("b" :> req.path[2])
    /\ (req.st = "quiet" /\ Undisturbed(req) /\ Len(req.path) = 2) =>
          \A j \in 1..Len(routes["app"]) :
              LET e == routes["app"][j]
              IN (/\ e.path = TwoParams /\ e.method = req.method
                  /\ AllBeforeCalledNext(req, CbOf("app", e)))
                     => Count(req, CbOf("app", e)) = 1

\* the nearest router, from r up the parent chain, whose own settings hold key
RECURSIVE NearestDefining(_, _)
NearestDefining(r, key) ==
    IF key \in DOMAIN settings[r] THEN r
    ELSE IF parent[r] = None THEN None ELSE NearestDefining(parent[r], key)

\* the value the parent chain gives key at r (undefined is falsy)
Inherited(r, key) ==
    IF NearestDefining(r, key) = None THEN FALSE ELSE settings[NearestDefining(r, key)][key]

\* C13: get(key), enabled(key) and disabled(key) of a router answer by the
\* router's own value of key when it has one, else by the value of the
\* nearest ancestor that defines key.
AccessorsDelegateToParent ==
    \A r \in Routers, key \in SettingKeys :
        /\ Get(settings, parent, r, key) = Inherited(r, key)
        /\ r \in Applications =>
              /\ Enabled(settings, r, key) = Inherited(r, key)
              /\ Disabled(settings, r, key) = ~Inherited(r, key)

\* the handlers and param hooks the step invoked
NewlyInvoked ==
    {n \in (Len(req.trace) + 1)..Len(req'.trace) : req'.trace[n].t \in {"fn", "hook"}}

\* C14: once the request is aborted, no further handler or param hook is
\* invoked for it, in the generic walk and in a native chain alike.
NothingInvokedAfterAbort ==
    [][((req.aborted \/ req.rawAborted) /\ req'.st # "idle") => NewlyInvoked = {}]_vars

\* C15: when the connection of a request was aborted and its dispatch ended
\* with no entry claiming it, the engine writes no response for it: the
\* top-level caller does not send the 404.
No404AfterAbort ==
    ((req.aborted \/ req.rawAborted) /\ req.matched = "false") => req.resp # "404"

\* the mount entries of the root table the request descends into
EnteredMounts(rq) ==
    {j \in 1..Len(routes["app"]) :
        LET e == routes["app"][j]
        IN e.callback.t = "router" /\ RegexTest(e.pattern, rq.path)}

\* the terminal entries of the root table that match the request
MatchingRootEntries(rq) ==
    {j \in 1..Len(routes["app"]) :
        LET e == routes["app"][j]
        IN /\ e.callback.t = "fn"
           /\ e.all \/ e.method = rq.method
           /\ PathMatches("app", e, [rq EXCEPT !.opPath = rq.path])}

\* C16: when every entry below a mount entry declines the request (every
\* callback invoked calls its continuation), the walk comes back to the
\* outermost router with the mount paths popped and the relative path
\* restored, and goes on after the mount entry: every matching terminal entry
\* of the outermost router is invoked, however deep the routers are nested.
DeclinedMountResumesParent ==
    (/\ req.st = "quiet" /\ req.mode = "generic" /\ Undisturbed(req)
     /\ \A n \in 1..Len(req.behs) : req.behs[n] = "next"
     /\ EnteredMounts(req) # {}) =>
        /\ req.stack = <<>>
        /\ req.opPath = req.path
        /\ \A j \in MatchingRootEntries(req) : Count(req, CbOf("app", routes["app"][j])) >= 1

\* the callback sent the response
Sends(b) == b \in {"end"} \cup SendBehaviours

\* C17: no handler or param hook is invoked once a callback has sent the
\* response, and the engine writes no response of its own (the 500, the 404)
\* when the response has been sent.
NothingAfterResponseSent ==
    /\ \A n \in 1..Len(req.behs) :
          Sends(req.behs[n]) =>
              \A m \in (n + 1)..Len(req.trace) : req.trace[m].t \notin {"fn", "hook"}
    /\ ~req.late

\* the generic walk of the request when every callback calls next()
RECURSIVE RunAllNext(_)
RunAllNext(rq) == IF rq.st # "run" THEN rq ELSE RunAllNext(WalkStep(rq, "next"))

\* the terminal handlers that walk invokes up to the handler of the entry
\* with key lastKey, among the entries registered up to that entry
WalkedUpTo(method, path, lastKey) ==
    LET trace == RunAllNext(WalkStart(NewRequest(method, path))).trace
        at == {n \in 1..Len(trace) : trace[n].t = "fn" /\ trace[n].k = lastKey}
        upTo == IF at = {} THEN trace
                ELSE SubSeq(trace, 1, CHOOSE n \in at : \A m \in at : n <= m)
        Earlier(cb) == cb.t = "fn" /\ cb.k <= lastKey
    IN SelectSeq(upTo, Earlier)

\* C18: the chain registered for a literal route R of method M and path P
\* holds the terminal handlers the generic walk of a request M P invokes
\* among the entries registered before R when every handler calls next(),
\* in that order, the matching entries of mounted sub-routers included,
\* followed by the handler of R.
ChainIsTheWalkOfEarlierEntries ==
    \A key \in DOMAIN uwsRoutes :
        LET chain == uwsRoutes[key]
        IN [i \in 1..Len(chain) |-> ChainCb(chain[i])]
               = WalkedUpTo(key[1], key[2], chain[Len(chain)].routeKey)

\* the (method, path) pairs the step registered with the transport
Registered ==
    {key \in DOMAIN uwsRoutes' : key \notin DOMAIN uwsRoutes \/ uwsRoutes'[key] # uwsRoutes[key]}

\* C19: a native handler is registered only for a route entry made by a
\* method verb among GET, POST, PUT, DELETE, PATCH, OPTIONS, HEAD, CONNECT and
\* TRACE, whose pattern is a literal string other than '/*', on a router that
\* has no parent and has case sensitive routing enabled at that time; use()
\* and all() register none.
NativeOnlyWhenEligible ==
    [][\A key \in Registered :
          LET chain == uwsRoutes'[key]
              R == chain[Len(chain)]
          IN /\ R.routeKey >= routeKey
             /\ R.method = key[1] /\ R.path = key[2]
             /\ R.method \in NativeMethods
             /\ ~R.use /\ ~R.all
             /\ R.pattern.kind = "str" /\ R.path # Wildcard
             /\ \A i \in 1..Len(R.path) : ~IsParam(R.path[i])
             /\ \E r \in Routers :
                   /\ \E j \in 1..Len(routes'[r]) : routes'[r][j] = R
                   /\ parent[r] = None
                   /\ Get(settings, parent, r, CSR)]_vars

\* a native handler is registered beside an all() entry, a wildcard entry
\* and an entry of a router that registered none
NativeBesideIneligible ==
    /\ uwsRoutes # <<>>
    /\ \E r \in Routers : \E j \in 1..Len(routes[r]) :
          LET e == routes[r][j]
          IN /\ e.callback.t = "fn" /\ ~e.use
             /\ e.all \/ e.path = Wildcard \/ e.method \notin NativeMethods \/ r # "app"
             /\ \A key \in DOMAIN uwsRoutes :
                   uwsRoutes[key][Len(uwsRoutes[key])].routeKey # e.routeKey

\* every entry has a key of its own below the counter, and every table is in
\* strictly ascending order of keys
KeysInOrder ==
    /\ \A r \in Routers : \A j \in 1..Len(routes[r]) :
          /\ routes[r][j].routeKey < routeKey
          /\ \A k \in (j + 1)..Len(routes[r]) : routes[r][j].routeKey < routes[r][k].routeKey
    /\ \A r \in Routers, q \in Routers :
          \A j \in 1..Len(routes[r]) : \A k \in 1..Len(routes[q]) :
              routes[r][j].routeKey = routes[q][k].routeKey => (r = q /\ j = k)

\* the step keeps the entries of every table and appends entries whose keys
\* lie above every key given before
AppendOnly ==
    /\ routeKey' >= routeKey
    /\ \A r \in Routers :
          /\ Len(routes'[r]) >= Len(routes[r])
          /\ SubSeq(routes'[r], 1, Len(routes[r])) = routes[r]
          /\ \A j \in (Len(routes[r]) + 1)..Len(routes'[r]) : routes'[r][j].routeKey >= routeKey

\* C20: whatever is registered on whatever router, every route entry has
\* a routeKey of its own, the keys grow strictly in registration order, and
\* every table only grows at its end and is in strictly ascending key order.
KeysAscendTablesAppendOnly == [][AppendOnly /\ KeysInOrder']_vars

\* the entries of two routers were registered in turns
InterleavedTables ==
    /\ Len(routes["app"]) >= 2
    /\ routes["app"][2].routeKey > routes["app"][1].routeKey + 1
    /\ routes["r1"] # <<>>

\* the entries the step appended to the table of router r
Appended(r) == (Len(routes[r]) + 1)..Len(routes'[r])

\* C21: the routeSkipKey of every entry is the routeKey of the last entry
\* its #createRoute call made, for one or several callbacks and for a path
\* argument that is an array of paths; it is not below the entry's own key
\* and is the key of an entry of the same table.
SkipKeyIsLastKeyOfCall ==
    [][\A r \in Routers : \A j \in Appended(r) :
          /\ routes'[r][j].routeSkipKey = routes'[r][Len(routes'[r])].routeKey
          /\ routes'[r][j].routeSkipKey >= routes'[r][j].routeKey]_vars

\* the hook called right after the hook cb, in registration order
NextHookOf(cb) == [t |-> "hook", k |-> cb.k + 1, r |-> cb.r]

\* C22: in the generic walk the hooks of a captured name run one at a time
\* in registration order: a hook is called only after the hook before it
\* called its continuation, the handler of the entry (or the first callback
\* below its sub-router) only after the last hook did, and nothing is called
\* after a hook that never calls its continuation.
HooksRunOneAtATime ==
    req.mode = "generic" =>
        \A n \in 1..Len(req.trace) :
            LET cb == req.trace[n]
            IN cb.t = "hook" =>
                 /\ cb.k > 1 => /\ n > 1
                                /\ req.trace[n - 1].t = "hook"
                                /\ NextHookOf(req.trace[n - 1]) = cb
                 /\ n < Len(req.trace) =>
                       /\ req.behs[n] = "next"
                       /\ req.trace[n + 1] # NextHookOf(cb)
                             => cb.k = Len(paramCallbacks[cb.r]["id"])
                 /\ (n <= Len(req.behs) /\ req.behs[n] # "next") => Len(req.trace) = n
                 /\ \A m \in (n + 1)..Len(req.trace) : req.trace[m] # cb

\* two hooks ran in turn before the handler; a hook that did not call its
\* continuation ended another request
TwoHooksThenHandler ==
    /\ req.mode = "generic"
    /\ Len(req.trace) = 3
    /\ req.trace[1].t = "hook" /\ req.trace[2] = NextHookOf(req.trace[1])
    /\ req.trace[3].t = "fn"

\* the handler threw or called its continuation with an error
Raised(b) == b \in {"throw", "nextErr"}

\* C23: an error raised by a handler of router S goes to the error handler
\* of S when S has one, else the engine answers 500; an error handler is
\* only ever called for an error raised by a handler of its own router, in
\* the generic walk and in a native chain.
ErrorStaysInItsRouter ==
    /\ \A n \in 1..Len(req.trace) :
          req.trace[n].t = "err" =>
              /\ n > 1 /\ FnAt(req, n - 1)
              /\ req.trace[n].r = req.trace[n - 1].r
    /\ \A n \in 1..Len(req.behs) :
          (FnAt(req, n) /\ Raised(req.behs[n]) /\ Undisturbed(req)) =>
              IF errorRoute[req.trace[n].r]
              THEN n < Len(req.trace) /\ req.trace[n + 1] = ErrCb(req.trace[n].r)
              ELSE Len(req.trace) = n /\ req.resp = "500"

\* the state of a request that its own dispatch keeps: stack, relative path,
\* processed params, params, cursors, callbacks invoked and outcome
Private(rq) ==
    <<rq.stack, rq.opPath, rq.gotParams, rq.params, rq.frames, rq.hookq, rq.i, rq.chain,
      rq.trace, rq.seen, rq.behs, rq.running, rq.st, rq.resp, rq.matched>>

\* the request is where it would be had it been the only request ever served
AsIfAlone(rq) == rq.st # "idle" => Private(rq) = Private(ServedFirst(rq))

\* every matcher in #mountpathCache is the prefix matcher of its key
CacheHoldsMatcherOfKey ==
    \A r \in Routers : \A k \in DOMAIN mountpathCache[r] :
        mountpathCache[r][k] = PatternToRegex(k, TRUE)

\* C24: with two requests in flight, interleaved in any way at the
\* suspension points of handlers and param hooks, a step of one request
\* leaves the stack, relative path, processed params, params and cursor of
\* the other as they were; each request invokes the callbacks, and ends with
\* the outcome, it has when served alone; and #mountpathCache maps every key
\* to the prefix matcher compiled from that key.
RequestsDoNotInterfere ==
    /\ [](AsIfAlone(req) /\ AsIfAlone(req2) /\ CacheHoldsMatcherOfKey)
    /\ [][/\ req' # req => Private(req2') = Private(req2)
          /\ req2' # req2 => Private(req') = Private(req)]_vars

\* both requests are suspended in a callback below a mount path, each after
\* a callback of its own completed, one of them on a cached matcher
TwoRequestsUnderMount ==
    /\ req.st = "run" /\ req2.st = "run"
    /\ req.behs # <<>> /\ req2.behs # <<>>
    /\ req.stack # <<>> /\ req2.stack # <<>>
    /\ req2.hit /\ ~req.hit

\* C25: the generic walk of a request reports a result, handled or not
\* handled, to its caller once every callback it invoked has returned, when
\* every param hook called its continuation; also when a handler called its
\* continuation with an error and the router has no error handler.
WalkReportsResult ==
    (/\ req.mode = "generic" /\ req.st = "quiet"
     /\ \A n \in 1..Len(req.behs) : req.trace[n].t = "hook" => req.behs[n] = "next") =>
        req.matched # "pending"

\* C26: when every handler of a native chain, the last one included, calls
\* its continuation without an error, the matching entries registered after
\* the literal route are invoked too, and the request, which nothing
\* claimed, is answered 404.
NativeChainFallsThrough ==
    (/\ req.mode = "native" /\ req.st = "quiet" /\ Undisturbed(req)
     /\ \A n \in 1..Len(req.behs) : CalledNext(req.behs[n])) =>
        /\ req.resp = "404"
        /\ \A j \in MatchingRootEntries(req) : Count(req, CbOf("app", routes["app"][j])) >= 1

\* the behaviours with every second call of next() left out
CallingOnce(behs) == [n \in 1..Len(behs) |-> IF behs[n] = "nextTwice" THEN "next" ELSE behs[n]]

\* C27: a second call of next() by a handler changes nothing: the request
\* invokes the callbacks, and ends with the response, of the same request
\* whose handlers call next() once, and invokes no entry twice; in the
\* generic walk and in a native chain.
SecondNextHasNoEffect ==
    (req.st = "quiet" /\ Undisturbed(req)) =>
        LET once == ReplayAny(Serve(NewRequest(req.method, req.path)), CallingOnce(req.behs))
        IN /\ once.st = "quiet" /\ once.trace = req.trace /\ once.resp = req.resp
           /\ \A n, m \in 1..Len(req.trace) : n < m => req.trace[n] # req.trace[m]

====
